---- MODULE Spec2Model ----
(***************************************************************************)
(* Model of the WSG component tracking prototype: the SQLite tables behind *)
(* one connection (db.py), the repository functions (repositories.py), the *)
(* domain checks (component.py), the event bus (events.py), the service   *)
(* operations (services.py) and the menu loop of the text UI (cli.py).     *)
(*                                                                         *)
(* One sqlite3 connection in Python's default (legacy) transaction mode:   *)
(* an INSERT/UPDATE opens a transaction implicitly, reads on the           *)
(* connection see its uncommitted writes, commit() makes them durable and  *)
(* rollback() discards them.  `view' is what the connection reads,         *)
(* `durable' what is committed.                                            *)
(***************************************************************************)
EXTENDS Integers, Sequences, FiniteSets, TLC

\* ---------------------------------------------------------------- bounds
MaxQty == 1
MaxLogs == 2
MaxHandlers == 1
MaxLeaks == 1
MaxClock == 1
MaxLimit == 2
MaxBusHandlers == 3
MaxHistory == 3

\* ---------------------------------------------------------------- inputs
Names == {"a", "b"}
Descriptions == {""}
\* A str holding a lone surrogate is a valid Python str (and a valid
\* User.name) that sqlite3 cannot encode when it binds the parameter.
LoneSurrogate == "\\ud800"
GoodUsers == {"eng", "tech"}
Users == GoodUsers \cup {LoneSurrogate}
Messages == {"", " fix "}
\* The step of the write unit at which the storage engine fails (sqlite3.Error).
Faults == {"none", "component", "log", "commit"}
\* Who calls, with which message, and where the storage engine fails: a
\* selection of [user : Users, message : Messages, fault : Faults].
Caller == [user |-> "eng", message |-> " fix ", fault |-> "none"]
Second == [user |-> "tech", message |-> "", fault |-> "none"]
Contexts ==
    {Caller,
     [user |-> "eng", message |-> " fix ", fault |-> "component"],
     [user |-> "eng", message |-> "", fault |-> "log"],
     [user |-> "eng", message |-> " fix ", fault |-> "commit"],
     [user |-> LoneSurrogate, message |-> "", fault |-> "none"]}
AddStatuses == {"idle"}
NewStatuses == {"active", "retired", "broken"}
Quantities == 0..MaxQty
Deltas == (0 - MaxQty)..MaxQty
Thresholds == (0 - 1)..MaxQty
HandlerKinds == {"rec", "boom"}
EventNames == {"LOW_STOCK"}
\* The limits a caller passes to list_logs; SQLite reads a negative LIMIT as
\* no limit.
Limits == (0 - 1)..MaxLimit

Null == <<>>
Some(v) == <<v>>

\* ---------------------------------------------------------------- domain
allowed_statuses == {"active", "idle", "defected", "retired"}

\* Variant: low only strictly below the threshold.
requires_replenishment_strict(c) == c.quantity < c.min_quantity

requires_replenishment(c) == c.quantity <= c.min_quantity

\* Component.update_status: the new status must be one of the allowed ones.
\* Variant: a component can only be made active or idle.
InvalidStatusNarrow(new_status) == new_status \notin {"active", "idle"}

InvalidStatus(new_status) == new_status \notin allowed_statuses

\* Variants: a result of 0 is refused too; nothing is refused.
BelowOrAtZero(quantity, delta) == quantity + delta <= 0

NeverBelowZero(quantity, delta) == FALSE

\* Component.adjust_quantity: the resulting quantity must not go below 0.
BelowZero(quantity, delta) == quantity + delta < 0

\* str.strip() on the message inputs of the model.
Strip(m) == CASE m = " fix " -> "fix"
              [] m = " " -> ""
              [] OTHER -> m

Encodable(s) == s # LoneSurrogate

\* ---------------------------------------------------------------- tables
\* `now' is the engine's clock, which DEFAULT (datetime('now')) reads; it is
\* kept beside the tables and is no part of a transaction.
EmptyDb == [comps |-> {}, logs |-> {}, cseq |-> 0, lseq |-> 0, now |-> 0]

VARIABLES view, durable, subscribers, leaks, last, tally

vars == <<view, durable, subscribers, leaks, last, tally>>

\* ------------------------------------------------------------ repository
RowsById(db, cid) == {r \in db.comps : r.id = cid}

\* Variant: the WHERE id = ? clause is missing, any row is returned.
get_component_any(db, cid) ==
    IF db.comps = {} THEN Null ELSE Some(CHOOSE r \in db.comps : TRUE)

get_component(db, cid) ==
    IF RowsById(db, cid) = {} THEN Null
    ELSE Some(CHOOSE r \in RowsById(db, cid) : TRUE)

\* Variant: the lookup by name finds nothing.
get_component_by_name_blind(db, name) == Null

get_component_by_name(db, name) ==
    LET rows == {r \in db.comps : r.name = name}
    IN  IF rows = {} THEN Null ELSE Some(CHOOSE r \in rows : TRUE)

\* INSERT INTO components; AUTOINCREMENT takes the id from sqlite_sequence.
create_component(db, c) ==
    [db EXCEPT !.comps = @ \cup {[id |-> db.cseq + 1, name |-> c.name,
                                  description |-> c.description,
                                  status |-> c.status, quantity |-> c.quantity,
                                  min_quantity |-> c.min_quantity]},
               !.cseq = @ + 1]

update_component_status(db, cid, new_status) ==
    [db EXCEPT !.comps = {IF r.id = cid THEN [r EXCEPT !.status = new_status]
                          ELSE r : r \in db.comps}]

\* Variant: the UPDATE has no WHERE clause, every row gets the quantity.
update_component_quantity_all(db, cid, new_quantity) ==
    [db EXCEPT !.comps = {[r EXCEPT !.quantity = new_quantity] : r \in db.comps}]

update_component_quantity(db, cid, new_quantity) ==
    [db EXCEPT !.comps = {IF r.id = cid THEN [r EXCEPT !.quantity = new_quantity]
                          ELSE r : r \in db.comps}]

\* Variant: the UPDATE sets the quantity column.
update_component_min_quantity_wrong_column(db, cid, min_quantity) ==
    [db EXCEPT !.comps = {IF r.id = cid THEN [r EXCEPT !.quantity = min_quantity]
                          ELSE r : r \in db.comps}]

update_component_min_quantity(db, cid, min_quantity) ==
    [db EXCEPT !.comps = {IF r.id = cid THEN [r EXCEPT !.min_quantity = min_quantity]
                          ELSE r : r \in db.comps}]

\* Variant: the INSERT binds the before and the after values in each other's
\* place.
add_log_reversed(db, component_id, user_name, action, message, sb, sa, qb, qa) ==
    [db EXCEPT !.logs = @ \cup {[id |-> db.lseq + 1, timestamp |-> db.now,
                                 component_id |-> component_id,
                                 user_name |-> user_name, action |-> action,
                                 message |-> message,
                                 status_before |-> sa, status_after |-> sb,
                                 qty_before |-> qa, qty_after |-> qb]},
               !.lseq = @ + 1]

\* Variant: the INSERT binds user_name and action in each other's place.
add_log_swapped(db, component_id, user_name, action, message, sb, sa, qb, qa) ==
    [db EXCEPT !.logs = @ \cup {[id |-> db.lseq + 1, timestamp |-> db.now,
                                 component_id |-> component_id,
                                 user_name |-> action, action |-> user_name,
                                 message |-> message,
                                 status_before |-> sb, status_after |-> sa,
                                 qty_before |-> qb, qty_after |-> qa]},
               !.lseq = @ + 1]

\* Variant: the INSERT replaces the newest row instead of appending one.
add_log_replacing(db, component_id, user_name, action, message, sb, sa, qb, qa) ==
    [db EXCEPT !.logs = {l \in @ : l.id # db.lseq}
                        \cup {[id |-> IF db.lseq = 0 THEN 1 ELSE db.lseq,
                               timestamp |-> db.now,
                               component_id |-> component_id,
                               user_name |-> user_name, action |-> action,
                               message |-> message,
                               status_before |-> sb, status_after |-> sa,
                               qty_before |-> qb, qty_after |-> qa]},
               !.lseq = IF @ = 0 THEN 1 ELSE @]

add_log(db, component_id, user_name, action, message, sb, sa, qb, qa) ==
    [db EXCEPT !.logs = @ \cup {[id |-> db.lseq + 1, timestamp |-> db.now,
                                 component_id |-> component_id,
                                 user_name |-> user_name, action |-> action,
                                 message |-> message,
                                 status_before |-> sb, status_after |-> sa,
                                 qty_before |-> qb, qty_after |-> qa]},
               !.lseq = @ + 1]

\* ------------------------------------------------------------- event bus
LowStock(cid, name, qty) ==
    [name |-> "LOW_STOCK",
     payload |-> [component_id |-> cid, name |-> name, quantity |-> qty]]

\* What a handler reads when it runs: the component through the connection
\* and the committed tables at that moment.
Observe(st, event) ==
    [comp |-> get_component(st.view, event.payload.component_id),
     committed_comp |-> get_component(st.durable, event.payload.component_id),
     log_ids |-> {l.id : l \in st.view.logs},
     committed_log_ids |-> {l.id : l \in st.durable.logs},
     committed_newest |-> {l \in st.durable.logs :
                              \A m \in st.durable.logs : m.id <= l.id}]

\* EventBus.subscribe: a blank name is rejected, otherwise the handler is
\* appended to the name's list.
subscribe(subs, event_name, handler) ==
    IF Strip(event_name) = "" THEN subs
    ELSE [n \in DOMAIN subs \cup {event_name} |->
             IF n = event_name
             THEN (IF n \in DOMAIN subs THEN subs[n] ELSE <<>>) \o <<handler>>
             ELSE subs[n]]

\* Variant: the handlers of some name, whatever the event's name is.
SubscribedAnyName(subs, event_name) ==
    IF DOMAIN subs = {} THEN <<>>
    ELSE subs[CHOOSE n \in DOMAIN subs : \A m \in DOMAIN subs : Len(subs[m]) <= Len(subs[n])]

\* self._subscribers.get(event.name, [])
Subscribed(subs, event_name) ==
    IF event_name \in DOMAIN subs THEN subs[event_name] ELSE <<>>

\* handler(event) raises: a "boom" handler on every event, a "picky" handler
\* on the events whose payload has quantity 0.
Raises(kind, event) ==
    kind = "boom" \/ (kind = "picky" /\ event.payload.quantity = 0)

\* Variant: the loop runs over the bus's list itself, not over a copy of it.
RECURSIVE DeliverLive(_, _, _, _, _)
DeliverLive(hs, i, event, st, subs) ==
    LET live == IF event.name \in DOMAIN subs THEN subs[event.name] ELSE <<>>
    IN  IF i > Len(live) THEN [handled |-> <<>>, raised |-> FALSE, subs |-> subs]
        ELSE LET call == [handler |-> i, kind |-> live[i], event |-> event,
                          seen |-> Observe(st, event)]
                 then == IF live[i] = "sub" THEN subscribe(subs, event.name, "late")
                         ELSE subs
             IN  IF Raises(live[i], event)
                 THEN [handled |-> <<call>>, raised |-> TRUE, subs |-> subs]
                 ELSE LET rest == DeliverLive(hs, i + 1, event, st, then)
                      IN  [handled |-> <<call>> \o rest.handled,
                           raised |-> rest.raised, subs |-> rest.subs]

\* Variant: the loop goes on to the next handler after one has raised.
RECURSIVE DeliverIsolated(_, _, _, _, _)
DeliverIsolated(hs, i, event, st, subs) ==
    IF i > Len(hs) THEN [handled |-> <<>>, raised |-> FALSE, subs |-> subs]
    ELSE LET call == [handler |-> i, kind |-> hs[i], event |-> event,
                      seen |-> Observe(st, event)]
             then == IF hs[i] = "sub" THEN subscribe(subs, event.name, "late") ELSE subs
             rest == DeliverIsolated(hs, i + 1, event, st, then)
         IN  [handled |-> <<call>> \o rest.handled,
              raised |-> Raises(hs[i], event) \/ rest.raised,
              subs |-> rest.subs]

\* for handler in list(subscribers): handler(event).  `hs' is the copy of the
\* list made when the loop starts, `subs' the bus's map while the handlers run.
\* A "rec" handler returns, a "sub" handler subscribes a handler "late" under
\* the event's name and returns, a "late" handler returns; a handler that
\* raises ends the loop.
RECURSIVE Deliver(_, _, _, _, _)
Deliver(hs, i, event, st, subs) ==
    IF i > Len(hs) THEN [handled |-> <<>>, raised |-> FALSE, subs |-> subs]
    ELSE LET call == [handler |-> i, kind |-> hs[i], event |-> event,
                      seen |-> Observe(st, event)]
             then == IF hs[i] = "sub" THEN subscribe(subs, event.name, "late") ELSE subs
         IN  IF Raises(hs[i], event)
             THEN [handled |-> <<call>>, raised |-> TRUE, subs |-> subs]
             ELSE LET rest == Deliver(hs, i + 1, event, st, then)
                  IN  [handled |-> <<call>> \o rest.handled, raised |-> rest.raised,
                       subs |-> rest.subs]

publish(subs, event, st) ==
    Deliver(Subscribed(subs, event.name), 1, event, st, subs)

\* ------------------------------------------------------------ connection
\* Variant: the commit is left out.
commit_skipped(st) == st

commit(st) == [st EXCEPT !.durable = st.view]

rollback(st) == [st EXCEPT !.view = st.durable]

\* --------------------------------------------------------------- service
\* The outcome of one service call: the connection afterwards, the exception
\* that reached the caller ("none" on return), the returned id, the events
\* handed to publish and the handler invocations made.
Outcome(st, exc, why, ret, txn) ==
    [st |-> st, exc |-> exc, why |-> why, ret |-> ret, txn |-> txn,
     published |-> <<>>, handled |-> <<>>]

\* Variant: the except clause raises without rolling back.
StorageErrorKeepsWrites(st) == Outcome(st, "RuntimeError", "storage", 0, "rolled_back")

\* except sqlite3.Error: rollback(); raise RuntimeError(...)
StorageError(st) == Outcome(rollback(st), "RuntimeError", "storage", 0, "rolled_back")

\* An exception that is not a sqlite3.Error passes the except clause.
Uncaught(st, exc) == Outcome(st, exc, "encoding", 0, "open")

Rejected(st, why) == Outcome(st, "ValueError", why, 0, "untouched")

\* Variant: the publish step keeps a handler's exception from the caller.
PublishingIsolated(st, subs, due, event, ret) ==
    IF ~due THEN Outcome(st, "none", "", ret, "committed")
    ELSE [st |-> st, exc |-> "none", why |-> "", ret |-> ret, txn |-> "committed",
          published |-> <<event>>, handled |-> publish(subs, event, st).handled]

\* The publish step after the commit: no event, or one LOW_STOCK event whose
\* handlers run now; a raising handler's exception reaches the caller.  The
\* handlers of the service's calls ("rec", "boom") leave the bus as it is.
Publishing(st, subs, due, event, ret) ==
    IF ~due THEN Outcome(st, "none", "", ret, "committed")
    ELSE LET d == publish(subs, event, st)
         IN  [st |-> st,
              exc |-> IF d.raised THEN "HandlerError" ELSE "none",
              why |-> IF d.raised THEN "handler" ELSE "",
              ret |-> IF d.raised THEN 0 ELSE ret,
              txn |-> "committed",
              published |-> <<event>>, handled |-> d.handled]

\* The write unit: component write, log write, commit.  `w1' is the view
\* after the component write, `w2' after the log write.
WriteUnit(st, w1, w2, user, fault) ==
    IF fault = "component" THEN StorageError(st)
    ELSE IF ~Encodable(user) THEN Uncaught([st EXCEPT !.view = w1], "UnicodeEncodeError")
    ELSE IF fault = "log" THEN StorageError([st EXCEPT !.view = w1])
    ELSE IF fault = "commit" THEN StorageError([st EXCEPT !.view = w2])
    ELSE Outcome(commit([st EXCEPT !.view = w2]), "none", "", 0, "committed")

\* The guard of set_min_quantity: the threshold must be >= 0.
NegativeThreshold(min_quantity) == min_quantity < 0

\* The UNIQUE constraint on components.name: the INSERT of a taken name is a
\* sqlite3.IntegrityError.
UniqueViolation(db, name) == \E r \in db.comps : r.name = name

\* Variant: low only strictly below the threshold.
LowAtCreationStrict(component) == component.quantity < component.min_quantity

\* add_component publishes when the component handed in is already low.
LowAtCreation(component) == component.quantity <= component.min_quantity

add_component(st, subs, user, component, fault) ==
    IF get_component_by_name(st.view, component.name) # Null
    THEN Rejected(st, "duplicate")
    ELSE LET component_id == st.view.cseq + 1
             w1 == create_component(st.view, component)
             w2 == add_log(w1, component_id, user, "CREATE_COMPONENT",
                           "Created component '" \o component.name \o "'.",
                           Null, Some(component.status),
                           Null, Some(component.quantity))
             u == WriteUnit(st, w1, w2, user,
                            IF UniqueViolation(st.view, component.name)
                            THEN "component" ELSE fault)
         IN  IF u.exc # "none" THEN u
             ELSE Publishing(u.st, subs, LowAtCreation(component),
                             LowStock(component_id, component.name, component.quantity),
                             component_id)

\* After the commit the component is read again and LOW_STOCK is published
\* from that row when it requires replenishment.
PublishIfLow(u, subs, component_id) ==
    IF u.exc # "none" THEN u
    ELSE LET comp == get_component(u.st.view, component_id)
         IN  Publishing(u.st, subs,
                        comp # Null /\ requires_replenishment(comp[1]),
                        IF comp = Null THEN LowStock(0, "", 0)
                        ELSE LowStock(comp[1].id, comp[1].name, comp[1].quantity),
                        0)

\* Variant: update_status publishes LOW_STOCK like adjust_quantity does.
update_status_with_audit_publishing(st, user, component_id, new_status, message, fault) ==
    LET before == get_component(st.view, component_id)
    IN  IF before = Null THEN Rejected(st, "not_found")
        ELSE IF InvalidStatus(new_status) THEN Rejected(st, "validation")
        ELSE LET w1 == update_component_status(st.view, component_id, new_status)
                 w2 == add_log(w1, component_id, user, "UPDATE_STATUS",
                               Strip(message),
                               Some(before[1].status), Some(new_status),
                               Null, Null)
             IN  PublishIfLow(WriteUnit(st, w1, w2, user, fault),
                              [n \in {} |-> <<>>], component_id)

\* update_status delegates to update_status_with_audit; no event is published.
update_status_with_audit(st, user, component_id, new_status, message, fault) ==
    LET before == get_component(st.view, component_id)
    IN  IF before = Null THEN Rejected(st, "not_found")
        ELSE IF InvalidStatus(new_status) THEN Rejected(st, "validation")
        ELSE LET w1 == update_component_status(st.view, component_id, new_status)
                 w2 == add_log(w1, component_id, user, "UPDATE_STATUS",
                               Strip(message),
                               Some(before[1].status), Some(new_status),
                               Null, Null)
             IN  WriteUnit(st, w1, w2, user, fault)

adjust_quantity(st, subs, user, component_id, delta, message, fault) ==
    LET before == get_component(st.view, component_id)
    IN  IF before = Null THEN Rejected(st, "not_found")
        ELSE IF BelowZero(before[1].quantity, delta) THEN Rejected(st, "validation")
        ELSE LET after_qty == before[1].quantity + delta
                 w1 == update_component_quantity(st.view, component_id, after_qty)
                 w2 == add_log(w1, component_id, user, "ADJUST_QUANTITY",
                               Strip(message), Null, Null,
                               Some(after_qty - delta), Some(after_qty))
             IN  PublishIfLow(WriteUnit(st, w1, w2, user, fault), subs, component_id)

\* Variant: the component is looked up before the threshold is validated.
set_min_quantity_lookup_first(st, subs, user, component_id, min_quantity, message, fault) ==
    LET before == get_component(st.view, component_id)
    IN  IF before = Null THEN Rejected(st, "not_found")
        ELSE IF NegativeThreshold(min_quantity) THEN Rejected(st, "validation")
        ELSE LET w1 == update_component_min_quantity(st.view, component_id,
                                                     min_quantity)
                 generated == "min_quantity " \o ToString(before[1].min_quantity)
                              \o " -> " \o ToString(min_quantity)
                 w2 == add_log(w1, component_id, user, "SET_MIN_QUANTITY",
                               IF Strip(message) # "" THEN Strip(message)
                               ELSE generated,
                               Null, Null, Null, Null)
             IN  PublishIfLow(WriteUnit(st, w1, w2, user, fault), subs,
                              component_id)

set_min_quantity(st, subs, user, component_id, min_quantity, message, fault) ==
    IF NegativeThreshold(min_quantity) THEN Rejected(st, "validation")
    ELSE LET before == get_component(st.view, component_id)
         IN  IF before = Null THEN Rejected(st, "not_found")
             ELSE LET w1 == update_component_min_quantity(st.view, component_id,
                                                          min_quantity)
                      generated == "min_quantity " \o ToString(before[1].min_quantity)
                                   \o " -> " \o ToString(min_quantity)
                      w2 == add_log(w1, component_id, user, "SET_MIN_QUANTITY",
                                    IF Strip(message) # "" THEN Strip(message)
                                    ELSE generated,
                                    Null, Null, Null, Null)
                  IN  PublishIfLow(WriteUnit(st, w1, w2, user, fault), subs,
                                   component_id)

\* ------------------------------------------------------------------ calls
\* The calls a client can make in the model.
\* The ids a caller passes: those of the components and one that none has.
Ids == {r.id : r \in view.comps} \cup {view.cseq + 1}

\* A call that is rejected before its write unit is made by Caller alone: the
\* user, the message and the storage engine play no part in it.  The user
\* whose name cannot be encoded adds components with the dataclass defaults
\* (quantity 0, min_quantity 0).
AddCalls ==
    {c \in [ctx : Contexts, name : Names, description : Descriptions,
            status : AddStatuses, quantity : Quantities, min_quantity : Quantities] :
        /\ c.name \in {r.name : r \in view.comps} => c.ctx = Caller
        /\ ~Encodable(c.ctx.user) => c.quantity = 0 /\ c.min_quantity = 0}

UpdateCalls ==
    {c \in [ctx : Contexts, cid : Ids, new_status : NewStatuses] :
        (c.cid \notin {r.id : r \in view.comps} \/ c.new_status \notin allowed_statuses)
            => c.ctx = Caller}

AdjustCalls ==
    {c \in [ctx : Contexts, cid : Ids, delta : Deltas] :
        c.cid \notin {r.id : r \in view.comps} => c.ctx = Caller}

SetMinCalls ==
    {c \in [ctx : Contexts \cup {Second}, cid : Ids, min_quantity : Thresholds] :
        (c.cid \notin {r.id : r \in view.comps} \/ c.min_quantity < 0)
            => c.ctx = Caller}

St == [view |-> view, durable |-> durable]

\* Component(id=None, name=..., ...) as the caller builds it.
NewComponent(c) ==
    [name |-> c.name, description |-> c.description, status |-> c.status,
     quantity |-> c.quantity, min_quantity |-> c.min_quantity]

DoAdd(c) ==
    add_component(St, subscribers, c.ctx.user, NewComponent(c), c.ctx.fault)

DoUpdate(c) ==
    update_status_with_audit(St, c.ctx.user, c.cid, c.new_status, c.ctx.message,
                             c.ctx.fault)

DoAdjust(c) ==
    adjust_quantity(St, subscribers, c.ctx.user, c.cid, c.delta, c.ctx.message,
                    c.ctx.fault)

DoSetMin(c) ==
    set_min_quantity(St, subscribers, c.ctx.user, c.cid, c.min_quantity,
                     c.ctx.message, c.ctx.fault)

\* What the caller and the handlers saw of the last call: the operation, the
\* exception that reached the caller ("none" on return), the returned id, the
\* events handed to publish and the handler invocations.
Seen(op, r) ==
    [op |-> op, exc |-> r.exc, why |-> r.why, ret |-> r.ret,
     published |-> r.published, handled |-> r.handled]

NoCall == [op |-> "none", exc |-> "none", why |-> "", ret |-> 0,
           published |-> <<>>, handled |-> <<>>]

\* `tally' counts the mutating calls that returned and those that raised only
\* because a handler raised in the publish step.
Init ==
    /\ view = EmptyDb
    /\ durable = EmptyDb
    /\ subscribers = [n \in {} |-> <<>>]
    /\ leaks = 0
    /\ last = NoCall
    /\ tally = [returned |-> 0, raised_after_commit |-> 0]

\* The bounds of the model on a call and its outcome.
Within(r, user) ==
    /\ r.st.view.lseq <= MaxLogs
    /\ \A c \in r.st.view.comps : c.quantity <= MaxQty
    /\ ~Encodable(user) => leaks < MaxLeaks

Apply(op, r) ==
    /\ view' = r.st.view
    /\ durable' = r.st.durable
    /\ leaks' = IF r.txn = "open" THEN leaks + 1 ELSE leaks
    /\ last' = Seen(op, r)
    /\ tally' = [returned |-> tally.returned + (IF r.exc = "none" THEN 1 ELSE 0),
                 raised_after_commit |-> tally.raised_after_commit
                                         + (IF r.exc = "HandlerError" THEN 1 ELSE 0)]
    /\ UNCHANGED subscribers

AddComponent ==
    \E c \in AddCalls : Within(DoAdd(c), c.ctx.user) /\ Apply("add_component", DoAdd(c))

UpdateStatus ==
    \E c \in UpdateCalls :
        Within(DoUpdate(c), c.ctx.user) /\ Apply("update_status", DoUpdate(c))

AdjustQuantity ==
    \E c \in AdjustCalls :
        Within(DoAdjust(c), c.ctx.user) /\ Apply("adjust_quantity", DoAdjust(c))

SetMinQuantity ==
    \E c \in SetMinCalls :
        Within(DoSetMin(c), c.ctx.user) /\ Apply("set_min_quantity", DoSetMin(c))

Subscribe ==
    \E event_name \in EventNames, handler \in HandlerKinds :
        /\ \A n \in DOMAIN subscribe(subscribers, event_name, handler) :
               Len(subscribe(subscribers, event_name, handler)[n]) <= MaxHandlers
        /\ subscribers' = subscribe(subscribers, event_name, handler)
        /\ last' = [NoCall EXCEPT !.op = "subscribe",
                                  !.exc = IF Strip(event_name) = "" THEN "ValueError"
                                          ELSE "none",
                                  !.why = IF Strip(event_name) = "" THEN "validation"
                                          ELSE ""]
        /\ UNCHANGED <<view, durable, leaks, tally>>

\* get_component, list_components, list_low_stock and list_logs: SELECTs.
Read ==
    /\ last' = [NoCall EXCEPT !.op = "read"]
    /\ UNCHANGED <<view, durable, subscribers, leaks, tally>>

Next ==
    \/ AddComponent
    \/ UpdateStatus
    \/ AdjustQuantity
    \/ SetMinQuantity
    \/ Subscribe
    \/ Read

Spec == Init /\ [][Next]_vars

\* ---------------------------------------------------------------- queries
\* ORDER BY name ASC on the names of the model (BINARY collation).
NameRank(name) == IF name = "a" THEN 1 ELSE 2

RECURSIVE ByName(_)
ByName(rows) ==
    IF rows = {} THEN <<>>
    ELSE LET top == CHOOSE r \in rows :
                        \A o \in rows : NameRank(r.name) <= NameRank(o.name)
         IN  <<top>> \o ByName(rows \ {top})

list_components(db) == ByName(db.comps)

\* ORDER BY (min_quantity - quantity) DESC, name ASC
ShortFirst(r, o) ==
    \/ r.min_quantity - r.quantity > o.min_quantity - o.quantity
    \/ /\ r.min_quantity - r.quantity = o.min_quantity - o.quantity
       /\ NameRank(r.name) <= NameRank(o.name)

RECURSIVE ByDeficit(_)
ByDeficit(rows) ==
    IF rows = {} THEN <<>>
    ELSE LET top == CHOOSE r \in rows : \A o \in rows : ShortFirst(r, o)
         IN  <<top>> \o ByDeficit(rows \ {top})

\* Variant: WHERE quantity < min_quantity
list_low_stock_strict(db) == ByDeficit({r \in db.comps : r.quantity < r.min_quantity})

\* WHERE quantity <= min_quantity
list_low_stock(db) == ByDeficit({r \in db.comps : r.quantity <= r.min_quantity})

\* ORDER BY timestamp DESC, id DESC
NewerFirst(r, o) ==
    \/ r.timestamp > o.timestamp
    \/ r.timestamp = o.timestamp /\ r.id >= o.id

RECURSIVE ByTime(_)
ByTime(rows) ==
    IF rows = {} THEN <<>>
    ELSE LET top == CHOOSE r \in rows : \A o \in rows : NewerFirst(r, o)
         IN  <<top>> \o ByTime(rows \ {top})

\* LIMIT ?
Limit(rows, limit) ==
    IF limit < 0 \/ limit >= Len(rows) THEN rows ELSE SubSeq(rows, 1, limit)

list_logs(db, component_id, limit) ==
    Limit(ByTime(IF component_id = Null THEN db.logs
                 ELSE {l \in db.logs : l.component_id = component_id[1]}),
          limit)

\* The catalogue in use, as the command line sets it up: one handler is
\* subscribed to LOW_STOCK before the first call; components of every status
\* are added and moved between statuses, time passes, and the read operations
\* are called.
QueryInit ==
    /\ view = EmptyDb
    /\ durable = EmptyDb
    /\ subscribers = subscribe([n \in {} |-> <<>>], "LOW_STOCK", "rec")
    /\ leaks = 0
    /\ last = NoCall
    /\ tally = [returned |-> 0, raised_after_commit |-> 0]

WideAddCalls ==
    {c \in [ctx : {Caller}, name : Names, description : Descriptions,
            status : allowed_statuses, quantity : Quantities,
            min_quantity : Quantities] : TRUE}

WideUpdateCalls ==
    [ctx : Contexts, cid : Ids, new_status : allowed_statuses \cup {"broken"}]

\* One second passes on the engine's clock.
Tick ==
    /\ view.now < MaxClock
    /\ view' = [view EXCEPT !.now = @ + 1]
    /\ durable' = [durable EXCEPT !.now = @ + 1]
    /\ last' = [NoCall EXCEPT !.op = "tick"]
    /\ UNCHANGED <<subscribers, leaks, tally>>

AddAnyStatus ==
    \E c \in WideAddCalls :
        Within(DoAdd(c), c.ctx.user) /\ Apply("add_component", DoAdd(c))

UpdateAnyStatus ==
    \E c \in WideUpdateCalls :
        /\ c.ctx = Caller
        /\ Within(DoUpdate(c), c.ctx.user)
        /\ Apply("update_status", DoUpdate(c))

Answer(op, args, rows) ==
    /\ last' = [NoCall EXCEPT !.op = op, !.ret = [args |-> args, rows |-> rows]]
    /\ UNCHANGED <<view, durable, subscribers, leaks, tally>>

GetComponent ==
    \E cid \in Ids : Answer("get_component", <<cid>>, get_component(view, cid))

ListComponents == Answer("list_components", <<>>, list_components(view))

ListLowStock == Answer("list_low_stock", <<>>, list_low_stock(view))

ListLogs ==
    \E component_id \in {Null} \cup {Some(cid) : cid \in Ids}, limit \in Limits :
        Answer("list_logs", <<component_id, limit>>,
               list_logs(view, component_id, limit))

QueryNext ==
    \/ Tick
    \/ AddAnyStatus
    \/ UpdateAnyStatus
    \/ GetComponent
    \/ ListComponents
    \/ ListLowStock
    \/ ListLogs

QuerySpec == QueryInit /\ [][QueryNext]_vars

\* ------------------------------------------------------------- histories
\* Longer histories of one caller on a working storage engine: up to
\* MaxHistory logged operations on up to two components, the command line's
\* handler subscribed.
HistoryWithin(r) ==
    /\ r.st.view.lseq <= MaxHistory
    /\ \A c \in r.st.view.comps : c.quantity <= MaxQty

HistoryAdd ==
    \E c \in AddCalls :
        c.ctx = Caller /\ HistoryWithin(DoAdd(c)) /\ Apply("add_component", DoAdd(c))

HistoryUpdate ==
    \E c \in UpdateCalls :
        c.ctx = Caller /\ HistoryWithin(DoUpdate(c)) /\ Apply("update_status", DoUpdate(c))

HistoryAdjust ==
    \E c \in AdjustCalls :
        c.ctx = Caller /\ HistoryWithin(DoAdjust(c))
                       /\ Apply("adjust_quantity", DoAdjust(c))

HistorySetMin ==
    \E c \in SetMinCalls :
        c.ctx = Caller /\ HistoryWithin(DoSetMin(c))
                       /\ Apply("set_min_quantity", DoSetMin(c))

HistoryNext ==
    \/ HistoryAdd
    \/ HistoryUpdate
    \/ HistoryAdjust
    \/ HistorySetMin

HistorySpec == QueryInit /\ [][HistoryNext]_vars

\* ------------------------------------------------------------ the text UI
\* run(): the user enters the name "eng" once, the handler that prints the
\* alert is subscribed, and the menu loop dispatches the entered choice until
\* choice 9 or until an exception leaves the loop.  `last.op' is "exit" after
\* choice 9 and "crashed" after an exception has left run().
Running == last.op \notin {"exit", "crashed"}

\* What the user can type at the status prompt of choice 2.
EnteredStatuses == AddStatuses \cup {"broken"}

\* The session's user with each message and storage fault.
CliContexts == {ctx \in Contexts : ctx.user = Caller.user}

\* except (ValueError, RuntimeError) around the service call of choices 2 to
\* 5; UnicodeEncodeError is a ValueError.
CaughtAtBoundary(exc) == exc \in {"ValueError", "RuntimeError", "UnicodeEncodeError"}

\* An exception that no except clause of run() takes: the finally clause
\* closes the connection, which drops what is pending, and run() raises.
Crash(st, exc, why) ==
    /\ view' = rollback(st).view
    /\ durable' = st.durable
    /\ last' = [NoCall EXCEPT !.op = "crashed", !.exc = exc, !.why = why]
    /\ UNCHANGED <<subscribers, leaks, tally>>

\* try: service call; print the result; except (ValueError, RuntimeError):
\* print the error.  The loop goes on either way.
MenuCall(op, r) ==
    IF r.exc = "none" \/ CaughtAtBoundary(r.exc) THEN Apply(op, r)
    ELSE Crash(r.st, r.exc, r.why)

\* Choice 2: the prompts give a non-empty name and quantities >= 0; the
\* Component is built before the try block, so the ValueError of
\* __post_init__ for a status that is not allowed is raised outside it.
CliAdd ==
    /\ Running
    /\ \E c \in [ctx : CliContexts, name : Names, description : Descriptions,
                 status : EnteredStatuses, quantity : Quantities,
                 min_quantity : Quantities] :
           IF InvalidStatus(c.status) THEN Crash(St, "ValueError", "validation")
           ELSE /\ Within(DoAdd(c), c.ctx.user)
                /\ MenuCall("add_component", DoAdd(c))

\* Choice 3.
CliUpdate ==
    /\ Running
    /\ \E c \in [ctx : CliContexts, cid : Ids, new_status : NewStatuses] :
           /\ Within(DoUpdate(c), c.ctx.user)
           /\ MenuCall("update_status", DoUpdate(c))

\* Choice 4.
CliAdjust ==
    /\ Running
    /\ \E c \in [ctx : CliContexts, cid : Ids, delta : Deltas] :
           /\ Within(DoAdjust(c), c.ctx.user)
           /\ MenuCall("adjust_quantity", DoAdjust(c))

\* Choice 5: the prompt gives a threshold >= 0.
CliSetMin ==
    /\ Running
    /\ \E c \in [ctx : CliContexts, cid : Ids, min_quantity : Quantities] :
           /\ Within(DoSetMin(c), c.ctx.user)
           /\ MenuCall("set_min_quantity", DoSetMin(c))

\* Choices 1, 6, 7 and 8 print what the reads return.
CliList ==
    /\ Running
    /\ last' = [NoCall EXCEPT !.op = "read"]
    /\ UNCHANGED <<view, durable, subscribers, leaks, tally>>

\* Choice 9: return; the finally clause closes the connection.
CliExit ==
    /\ Running
    /\ view' = rollback(St).view
    /\ last' = [NoCall EXCEPT !.op = "exit"]
    /\ UNCHANGED <<durable, subscribers, leaks, tally>>

CliNext ==
    \/ CliAdd
    \/ CliUpdate
    \/ CliAdjust
    \/ CliSetMin
    \/ CliList
    \/ CliExit

CliSpec == QueryInit /\ [][CliNext]_vars

\* ---------------------------------------------------------------- the bus
\* The bus on its own: handlers of four kinds are subscribed under two names
\* and events of both names are published.
BusNames == {"LOW_STOCK", "OTHER"}

BusHandlerKinds == {"rec", "boom", "sub", "picky"}

\* Event(name, payload)
BusEvent(name) ==
    [name |-> name, payload |-> [component_id |-> 0, name |-> "", quantity |-> 0]]

\* The events published under a name: with quantity 0 and with quantity 1.
BusEvents(name) == {BusEvent(name), [BusEvent(name) EXCEPT !.payload.quantity = 1]}

BusWithin(subs) == \A n \in DOMAIN subs : Len(subs[n]) <= MaxBusHandlers

BusSubscribe ==
    \E event_name \in BusNames, handler \in BusHandlerKinds :
        /\ BusWithin(subscribe(subscribers, event_name, handler))
        /\ subscribers' = subscribe(subscribers, event_name, handler)
        /\ last' = [NoCall EXCEPT !.op = "subscribe"]
        /\ UNCHANGED <<view, durable, leaks, tally>>

DoPublish(name) == publish(subscribers, BusEvent(name), St)

BusPublish ==
    \E name \in BusNames : \E event \in BusEvents(name) :
        /\ BusWithin(publish(subscribers, event, St).subs)
        /\ subscribers' = publish(subscribers, event, St).subs
        /\ last' = [op |-> "publish",
                    exc |-> IF publish(subscribers, event, St).raised
                            THEN "HandlerError" ELSE "none",
                    why |-> IF publish(subscribers, event, St).raised
                            THEN "handler" ELSE "",
                    ret |-> 0,
                    published |-> <<event>>,
                    handled |-> publish(subscribers, event, St).handled]
        /\ UNCHANGED <<view, durable, leaks, tally>>

BusNext ==
    \/ BusSubscribe
    \/ BusPublish

BusSpec == Init /\ [][BusNext]_vars

\* ----------------------------------------------------------------- claims
Mutating == {"add_component", "update_status", "adjust_quantity", "set_min_quantity"}

Known(cid) == \E r \in view.comps : r.id = cid

\* The calls that pass the checks made before the write unit.
AcceptedAdd(c) == \A r \in view.comps : r.name # c.name

AcceptedUpdate(c) == Known(c.cid) /\ c.new_status \in allowed_statuses

AcceptedAdjust(c) == Known(c.cid) /\ get_component(view, c.cid)[1].quantity + c.delta >= 0

AcceptedSetMin(c) == Known(c.cid) /\ c.min_quantity >= 0

\* C1: when a mutating call fails inside its write unit, whatever raised the
\* failure (the storage engine or anything else), the writes of the unit are
\* rolled back: nothing is left pending on the connection.
C1_FailedUnitLeavesNothingPending ==
    (last.op \in Mutating /\ last.why \in {"storage", "encoding"}) => view = durable

\* The caller gets the wrapped storage error, the committed rows are the ones
\* from before the call, nothing is pending and nothing was published.
StorageFailure(r) ==
    /\ r.exc = "RuntimeError"
    /\ r.why = "storage"
    /\ r.st.durable = durable
    /\ r.st.view = durable
    /\ r.published = <<>>
    /\ r.handled = <<>>

\* C2: if the storage engine fails at any step of the write unit (component
\* write, log write, commit) of a mutating call, the call raises the wrapped
\* storage error (a RuntimeError, not the ValueError of validation and
\* not-found) and the component rows and the log rows are the committed ones
\* from before the call.
C2_StorageFailureIsAtomic ==
    /\ \A c \in AddCalls :
           (AcceptedAdd(c) /\ c.ctx.fault # "none") => StorageFailure(DoAdd(c))
    /\ \A c \in UpdateCalls :
           (AcceptedUpdate(c) /\ c.ctx.fault # "none") => StorageFailure(DoUpdate(c))
    /\ \A c \in AdjustCalls :
           (AcceptedAdjust(c) /\ c.ctx.fault # "none") => StorageFailure(DoAdjust(c))
    /\ \A c \in SetMinCalls :
           (AcceptedSetMin(c) /\ c.ctx.fault # "none") => StorageFailure(DoSetMin(c))

C2_Witness ==
    /\ last.op = "adjust_quantity"
    /\ last.exc = "RuntimeError"
    /\ \E l \in durable.logs : l.action = "UPDATE_STATUS"

\* C3 as stated: a mutating call that fails adds no log row.
C3_FailedCallAddsNoLogRow ==
    [][(last'.op \in Mutating /\ last'.exc # "none") => view'.logs = view.logs]_vars

\* The call committed: it returned, or it raised only because a handler raised.
Committed(r) == r.exc \in {"none", "HandlerError"}

\* A committed call added exactly one log row, with the given fields; any other
\* call added none.
OneLogRow(r, action, component_ids, user_name) ==
    IF Committed(r)
    THEN /\ r.st.durable.logs = r.st.view.logs
         /\ \E row \in r.st.view.logs :
                /\ row \notin view.logs
                /\ r.st.view.logs = view.logs \cup {row}
                /\ row.action = action
                /\ row.component_id \in component_ids
                /\ row.user_name = user_name
    ELSE r.st.view.logs = view.logs

\* C3: a mutating call that commits (it returns, or it raises only because a
\* LOW_STOCK handler raised after the commit) adds exactly one log row, with
\* the action of the operation, the id of the component and the name of the
\* user; a call that fails before or inside its write unit adds none, and so
\* do reads.  The number of log rows is the number of committed calls.
C3_OneLogRowPerCommittedCall ==
    /\ Cardinality(view.logs) = tally.returned + tally.raised_after_commit
    /\ \A c \in AddCalls :
           OneLogRow(DoAdd(c), "CREATE_COMPONENT",
                     {r.id : r \in {x \in DoAdd(c).st.view.comps : x.name = c.name}},
                     c.ctx.user)
    /\ \A c \in UpdateCalls :
           OneLogRow(DoUpdate(c), "UPDATE_STATUS", {c.cid}, c.ctx.user)
    /\ \A c \in AdjustCalls :
           OneLogRow(DoAdjust(c), "ADJUST_QUANTITY", {c.cid}, c.ctx.user)
    /\ \A c \in SetMinCalls :
           OneLogRow(DoSetMin(c), "SET_MIN_QUANTITY", {c.cid}, c.ctx.user)

C3_Witness ==
    /\ last.op = "set_min_quantity"
    /\ last.exc = "HandlerError"
    /\ \E l \in durable.logs : l.action = "SET_MIN_QUANTITY" /\ l.user_name = "tech"
    /\ Cardinality(view.logs) = 2
    /\ tally.returned = 1

\* The log row a committed call added.
NewRow(r) == CHOOSE row \in r.st.view.logs : row \notin view.logs

\* The component as the connection reads it before and after a call.
Before(cid) == get_component(view, cid)[1]

After(r, cid) == get_component(r.st.view, cid)[1]

Created(r, name) == get_component_by_name(r.st.view, name)[1]

\* C4: the before/after fields of the log row a call writes match the
\* transition the call made, as read on the connection just before and just
\* after it.  CREATE_COMPONENT: status_after and qty_after are the created
\* component's status and quantity.  UPDATE_STATUS: status_before and
\* status_after are the status before and after.  ADJUST_QUANTITY: qty_before
\* and qty_after are the quantity before and after, and differ by delta.  The
\* fields the action does not concern are null.
C4_LogFieldsMatchTransition ==
    /\ \A c \in AddCalls :
           Committed(DoAdd(c)) =>
               LET row == NewRow(DoAdd(c))
                   made == Created(DoAdd(c), c.name)
               IN  /\ row.status_after = Some(made.status)
                   /\ row.qty_after = Some(made.quantity)
                   /\ made.status = c.status /\ made.quantity = c.quantity
                   /\ row.status_before = Null /\ row.qty_before = Null
    /\ \A c \in UpdateCalls :
           Committed(DoUpdate(c)) =>
               LET row == NewRow(DoUpdate(c))
               IN  /\ row.status_before = Some(Before(c.cid).status)
                   /\ row.status_after = Some(After(DoUpdate(c), c.cid).status)
                   /\ row.status_after = Some(c.new_status)
                   /\ row.qty_before = Null /\ row.qty_after = Null
    /\ \A c \in AdjustCalls :
           Committed(DoAdjust(c)) =>
               LET row == NewRow(DoAdjust(c))
               IN  /\ row.qty_before = Some(Before(c.cid).quantity)
                   /\ row.qty_after = Some(After(DoAdjust(c), c.cid).quantity)
                   /\ row.qty_after[1] - row.qty_before[1] = c.delta
                   /\ row.status_before = Null /\ row.status_after = Null
    /\ \A c \in SetMinCalls :
           Committed(DoSetMin(c)) =>
               LET row == NewRow(DoSetMin(c))
               IN  /\ row.status_before = Null /\ row.status_after = Null
                   /\ row.qty_before = Null /\ row.qty_after = Null

C4_Witness ==
    /\ last.op = "adjust_quantity"
    /\ last.exc = "none"
    /\ \E row \in view.logs :
           /\ row.action = "ADJUST_QUANTITY"
           /\ row.qty_before = Some(1)
           /\ row.qty_after = Some(0)

\* C5: add_component with the name of a persisted component fails with the
\* duplicate-name error and creates no component row, no log row and no event;
\* no two persisted components ever share a name.
C5_DuplicateNameRejected ==
    /\ \A c \in AddCalls :
           ~AcceptedAdd(c) =>
               /\ DoAdd(c).exc = "ValueError"
               /\ DoAdd(c).why = "duplicate"
               /\ DoAdd(c).st = St
               /\ DoAdd(c).published = <<>>
               /\ DoAdd(c).handled = <<>>
    /\ \A x, y \in view.comps : x.name = y.name => x = y
    /\ \A x, y \in durable.comps : x.name = y.name => x = y

C5_Witness ==
    /\ last.op = "add_component"
    /\ last.why = "duplicate"
    /\ Cardinality(durable.comps) = 2

\* A handler that raises is subscribed to LOW_STOCK.
RaisingHandler ==
    \E n \in DOMAIN subscribers : \E i \in DOMAIN subscribers[n] : subscribers[n][i] = "boom"

\* C6 as stated: with Q + delta >= 0 (nothing pending on the connection, the
\* storage engine working and the user name storable) adjust_quantity
\* succeeds: it returns.
C6_AcceptedAdjustReturns ==
    \A c \in AdjustCalls :
        (/\ view = durable
         /\ Known(c.cid)
         /\ Before(c.cid).quantity + c.delta >= 0
         /\ c.ctx.fault = "none"
         /\ Encodable(c.ctx.user)) => DoAdjust(c).exc = "none"

\* C6: for a persisted component with quantity Q, adjust_quantity with
\* Q + delta < 0 fails with a validation error, the quantity stays Q, no log
\* row is written and no event is published.  With Q + delta >= 0 validation
\* passes and, when the write unit completes (the storage engine works and the
\* user name can be stored), the quantity Q + delta is committed; the call
\* then returns unless a subscribed LOW_STOCK handler raises.
C6_AdjustValidation ==
    \A c \in AdjustCalls :
        Known(c.cid) =>
            IF Before(c.cid).quantity + c.delta < 0
            THEN /\ DoAdjust(c).exc = "ValueError"
                 /\ DoAdjust(c).why = "validation"
                 /\ DoAdjust(c).st = St
                 /\ DoAdjust(c).published = <<>>
                 /\ DoAdjust(c).handled = <<>>
            ELSE /\ DoAdjust(c).why # "validation"
                 /\ (c.ctx.fault = "none" /\ Encodable(c.ctx.user)) =>
                        /\ Committed(DoAdjust(c))
                        /\ After(DoAdjust(c), c.cid).quantity
                               = Before(c.cid).quantity + c.delta
                        /\ DoAdjust(c).st.durable = DoAdjust(c).st.view
                        /\ ~RaisingHandler => DoAdjust(c).exc = "none"

C6_Witness ==
    /\ last.op = "adjust_quantity"
    /\ last.why = "validation"
    /\ \E row \in durable.logs : row.action = "ADJUST_QUANTITY" /\ row.qty_after = Some(0)

\* C7: every persisted component, pending or committed, has quantity >= 0,
\* min_quantity >= 0 and a status among active, idle, defected, retired.
C7_ComponentsValid ==
    \A c \in view.comps \cup durable.comps :
        /\ c.quantity >= 0
        /\ c.min_quantity >= 0
        /\ c.status \in {"active", "idle", "defected", "retired"}

C7_Witness ==
    /\ last.op = "update_status"
    /\ last.why = "validation"
    /\ \E c \in durable.comps : \E row \in durable.logs :
           /\ row.action = "ADJUST_QUANTITY"
           /\ row.component_id = c.id
           /\ row.qty_before = Some(1)
           /\ c.quantity = 0

\* What each handler invocation of a call saw: the committed tables the call
\* ended with, holding one log row more than before the call, and nothing
\* pending; a call that did not commit published nothing.
PublishedAfterCommit(r) ==
    /\ ~Committed(r) => r.published = <<>> /\ r.handled = <<>>
    /\ r.handled # <<>> => r.published # <<>>
    /\ \A i \in DOMAIN r.handled :
           LET h == r.handled[i]
               cid == h.event.payload.component_id
           IN  /\ h.seen.committed_comp # Null
               /\ h.seen.committed_comp = get_component(r.st.durable, cid)
               /\ h.seen.comp = h.seen.committed_comp
               /\ h.seen.committed_log_ids = {l.id : l \in r.st.durable.logs}
               /\ h.seen.log_ids = h.seen.committed_log_ids
               /\ h.seen.committed_newest = {NewRow(r)}
               /\ NewRow(r).component_id = cid

\* C8 as stated: an operation that fails never publishes an event.
C8_FailedCallPublishesNothing ==
    (last.op \in Mutating /\ last.exc # "none") =>
        (last.published = <<>> /\ last.handled = <<>>)

\* C8: every LOW_STOCK handler invocation of a service operation happens after
\* the operation's commit: the handler reads the component change and its log
\* row, and both are committed.  An operation that is rejected or rolled back,
\* or fails in any other way before its commit, publishes nothing; the one
\* failing operation that has published is the one whose handler raised, after
\* the commit.
C8_HandlersRunAfterCommit ==
    /\ \A c \in AddCalls :
           /\ PublishedAfterCommit(DoAdd(c))
           /\ \A i \in DOMAIN DoAdd(c).handled :
                  /\ DoAdd(c).handled[i].seen.committed_comp[1].name = c.name
                  /\ DoAdd(c).handled[i].seen.committed_comp[1].id \notin
                         {x.id : x \in view.comps}
    /\ \A c \in UpdateCalls :
           DoUpdate(c).published = <<>> /\ DoUpdate(c).handled = <<>>
    /\ \A c \in AdjustCalls :
           /\ PublishedAfterCommit(DoAdjust(c))
           /\ \A i \in DOMAIN DoAdjust(c).handled :
                  DoAdjust(c).handled[i].seen.committed_comp[1].quantity
                      = Before(c.cid).quantity + c.delta
    /\ \A c \in SetMinCalls :
           /\ PublishedAfterCommit(DoSetMin(c))
           /\ \A i \in DOMAIN DoSetMin(c).handled :
                  DoSetMin(c).handled[i].seen.committed_comp[1].min_quantity
                      = c.min_quantity

C8_Witness ==
    /\ last.op = "adjust_quantity"
    /\ last.exc = "none"
    /\ Len(last.handled) = 1
    /\ last.handled[1].seen.committed_comp = Some(CHOOSE c \in durable.comps : TRUE)
    /\ \E row \in last.handled[1].seen.committed_newest :
           row.action = "ADJUST_QUANTITY" /\ row.qty_before = Some(1)

\* The handlers subscribed to LOW_STOCK.
LowStockHandlers ==
    IF "LOW_STOCK" \in DOMAIN subscribers THEN subscribers["LOW_STOCK"] ELSE <<>>

\* C9: an adjust_quantity that commits publishes exactly one LOW_STOCK event
\* when the committed quantity is <= the component's min_quantity and nothing
\* when it is above, whatever the quantity was before the call; the payload is
\* the component's id, name and committed quantity.  When the call returns,
\* each subscribed handler was invoked once with that event.
C9_AdjustPublishesIffLow ==
    \A c \in AdjustCalls :
        Committed(DoAdjust(c)) =>
            LET comp == get_component(DoAdjust(c).st.durable, c.cid)[1]
            IN  /\ DoAdjust(c).published =
                       IF comp.quantity <= comp.min_quantity
                       THEN <<LowStock(c.cid, comp.name, comp.quantity)>>
                       ELSE <<>>
                /\ DoAdjust(c).exc = "none" =>
                       /\ Len(DoAdjust(c).handled)
                              = Len(DoAdjust(c).published) * Len(LowStockHandlers)
                       /\ \A i \in DOMAIN DoAdjust(c).handled :
                              DoAdjust(c).handled[i].event = DoAdjust(c).published[1]

C9_Witness ==
    /\ last.op = "adjust_quantity"
    /\ last.exc = "none"
    /\ Len(last.published) = 1
    /\ Len(last.handled) = 1
    /\ \E row \in durable.logs :
           /\ row.action = "ADJUST_QUANTITY"
           /\ row.qty_before = row.qty_after
           /\ last.published[1].payload.quantity = row.qty_after[1]

\* C10: an add_component that returns publishes exactly one LOW_STOCK event,
\* carrying the returned id, the name and the quantity, when the new component
\* has quantity <= min_quantity, and no event when quantity > min_quantity.
C10_AddPublishesIffLow ==
    \A c \in AddCalls :
        DoAdd(c).exc = "none" =>
            /\ DoAdd(c).ret = Created(DoAdd(c), c.name).id
            /\ Created(DoAdd(c), c.name).quantity = c.quantity
            /\ Created(DoAdd(c), c.name).min_quantity = c.min_quantity
            /\ DoAdd(c).published =
                   IF c.quantity <= c.min_quantity
                   THEN <<LowStock(DoAdd(c).ret, c.name, c.quantity)>>
                   ELSE <<>>
            /\ Len(DoAdd(c).handled) = Len(DoAdd(c).published) * Len(LowStockHandlers)
            /\ \A i \in DOMAIN DoAdd(c).handled :
                   DoAdd(c).handled[i].event = DoAdd(c).published[1]

C10_Witness ==
    /\ last.op = "add_component"
    /\ last.exc = "none"
    /\ last.ret = 2
    /\ Len(last.handled) = 1
    /\ last.published = <<LowStock(2, "b", 1)>>
    /\ \E c \in durable.comps : c.id = 2 /\ c.quantity = 1 /\ c.min_quantity = 1

\* C11: a set_min_quantity that commits stores the new threshold, leaves the
\* component's quantity unchanged, and publishes exactly one LOW_STOCK event
\* (the component's id, name and quantity) when quantity <= the new threshold
\* and none otherwise; raising the threshold to or above the quantity publishes
\* LOW_STOCK with no quantity change.  When the call returns, each subscribed
\* handler was invoked once with that event.
C11_SetMinPublishesIffLow ==
    \A c \in SetMinCalls :
        Committed(DoSetMin(c)) =>
            LET comp == get_component(DoSetMin(c).st.durable, c.cid)[1]
            IN  /\ comp.quantity = Before(c.cid).quantity
                /\ comp.min_quantity = c.min_quantity
                /\ After(DoSetMin(c), c.cid) = comp
                /\ DoSetMin(c).published =
                       IF Before(c.cid).quantity <= c.min_quantity
                       THEN <<LowStock(c.cid, comp.name, Before(c.cid).quantity)>>
                       ELSE <<>>
                /\ DoSetMin(c).exc = "none" =>
                       /\ Len(DoSetMin(c).handled)
                              = Len(DoSetMin(c).published) * Len(LowStockHandlers)
                       /\ \A i \in DOMAIN DoSetMin(c).handled :
                              DoSetMin(c).handled[i].event = DoSetMin(c).published[1]

C11_Witness ==
    /\ last.op = "set_min_quantity"
    /\ last.exc = "none"
    /\ Len(last.handled) = 1
    /\ \E comp \in durable.comps : \E row \in durable.logs :
           /\ row.action = "SET_MIN_QUANTITY"
           /\ row.component_id = comp.id
           /\ row.message = "min_quantity 0 -> 1"
           /\ comp.quantity = 1
           /\ comp.min_quantity = 1
           /\ last.published = <<LowStock(comp.id, comp.name, 1)>>

\* C12: update_status on an existing component, with the storage engine
\* working and a user whose name can be encoded, returns for every destination
\* among active, idle, defected and retired from every current status (the
\* same status and a move out of retired included) and sets the persisted
\* status to the destination; a destination outside that set is a validation
\* error that leaves the status as it was and writes no log row.
C12_UpdateStatusAnyTransition ==
    \A c \in WideUpdateCalls :
        Known(c.cid) =>
            IF c.new_status \in {"active", "idle", "defected", "retired"}
            THEN (c.ctx.fault = "none" /\ Encodable(c.ctx.user)) =>
                     /\ DoUpdate(c).exc = "none"
                     /\ After(DoUpdate(c), c.cid) =
                            [Before(c.cid) EXCEPT !.status = c.new_status]
                     /\ get_component(DoUpdate(c).st.durable, c.cid) =
                            Some(After(DoUpdate(c), c.cid))
            ELSE /\ DoUpdate(c).exc = "ValueError"
                 /\ DoUpdate(c).why = "validation"
                 /\ After(DoUpdate(c), c.cid).status = Before(c.cid).status
                 /\ DoUpdate(c).st.view.logs = view.logs
                 /\ DoUpdate(c).st = St

\* A retired component was made active again, and one kept its status.
C12_Witness ==
    /\ last.op = "update_status"
    /\ last.exc = "none"
    /\ \E comp \in durable.comps : \E row \in durable.logs :
           /\ row.action = "UPDATE_STATUS"
           /\ row.component_id = comp.id
           /\ row.status_before = Some("retired")
           /\ row.status_after = Some("active")
           /\ row.id = durable.lseq
           /\ comp.status = "active"

\* C13: update_status, adjust_quantity and set_min_quantity (with a threshold
\* that is not negative) called with an id that no component has raise the
\* not-found ValueError before any write: the component rows, the log rows and
\* the sequences stay as they were, pending and committed alike, and no event
\* is published.
C13_UnknownIdChangesNothing ==
    LET Untouched(r) ==
            /\ r.exc = "ValueError"
            /\ r.why = "not_found"
            /\ r.st.view = view
            /\ r.st.durable = durable
            /\ r.published = <<>>
            /\ r.handled = <<>>
    IN  /\ \A c \in UpdateCalls : ~Known(c.cid) => Untouched(DoUpdate(c))
        /\ \A c \in AdjustCalls : ~Known(c.cid) => Untouched(DoAdjust(c))
        /\ \A c \in SetMinCalls :
               ~Known(c.cid) /\ c.min_quantity >= 0 => Untouched(DoSetMin(c))

\* A call with an unknown id was made on a catalogue that has a component, a
\* log row and a handler: all are as before.
C13_Witness ==
    /\ last.op \in {"update_status", "adjust_quantity", "set_min_quantity"}
    /\ last.exc = "ValueError"
    /\ last.why = "not_found"
    /\ last.published = <<>>
    /\ view.comps # {}
    /\ view.logs # {}
    /\ LowStockHandlers # <<>>

\* C14: the log is append-only.  No step of the program changes or removes a
\* log row that exists, in the connection's view or in the committed data:
\* every earlier row is still there with all its fields, and a row that is
\* new has an id greater than the id of every row that existed; no two rows
\* share an id.
C14_LogIsAppendOnly ==
    [][/\ view.logs \subseteq view'.logs
       /\ durable.logs \subseteq durable'.logs
       /\ \A new \in (view'.logs \cup durable'.logs) \ (view.logs \cup durable.logs) :
              \A old \in view.logs \cup durable.logs : new.id > old.id
       /\ \A r, o \in view'.logs \cup durable'.logs : r.id = o.id => r = o]_vars

\* A second row was appended after a first one: both are in the log.
C14_Witness ==
    /\ last.op \in Mutating
    /\ last.exc = "none"
    /\ {row.id : row \in durable.logs} = {1, 2}
    /\ view.logs = durable.logs
    /\ \E row \in durable.logs : row.id = 2 /\ row.action # "CREATE_COMPONENT"

\* The handlers subscribed under a name, in subscription order.
HandlersOf(name) == IF name \in DOMAIN subscribers THEN subscribers[name] ELSE <<>>

\* The first invocations of a publish are those of the handlers of `hs', one
\* each, in the order of the list, with the published event.
InvokedInOrder(d, hs, event) ==
    /\ Len(d.handled) <= Len(hs)
    /\ \A k \in 1..Len(d.handled) :
           /\ d.handled[k].handler = k
           /\ d.handled[k].kind = hs[k]
           /\ d.handled[k].event = event

\* C15 as stated: publish invokes every handler subscribed under the event's
\* name, once per subscription, in subscription order, and no other handler.
C15_PublishInvokesEverySubscriber ==
    \A name \in BusNames :
        /\ InvokedInOrder(DoPublish(name), HandlersOf(name), BusEvent(name))
        /\ Len(DoPublish(name).handled) = Len(HandlersOf(name))

\* C15: publish invokes the handlers subscribed under the event's name, once
\* per subscription, in subscription order, up to and including the first
\* one that raises, whose exception ends the publish; when none raises every
\* subscription is invoked.  Handlers subscribed under other names are not
\* invoked.
C15_PublishInvokesInOrderUntilRaise ==
    \A name \in BusNames :
        LET hs == HandlersOf(name)
            d == DoPublish(name)
            n == Len(d.handled)
        IN  /\ InvokedInOrder(d, hs, BusEvent(name))
            /\ ~d.raised => n = Len(hs)
            /\ d.raised <=> \E k \in 1..Len(hs) : Raises(hs[k], BusEvent(name))
            /\ d.raised => /\ Raises(hs[n], BusEvent(name))
                           /\ \A k \in 1..(n - 1) : ~Raises(hs[k], BusEvent(name))

\* LOW_STOCK was published to its two handlers, in order, while another
\* name has a handler of its own.
C15_Witness ==
    /\ last.op = "publish"
    /\ last.exc = "none"
    /\ last.published = <<BusEvent("LOW_STOCK")>>
    /\ HandlersOf("OTHER") = <<"boom">>
    /\ HandlersOf("LOW_STOCK") = <<"rec", "rec">>
    /\ Len(last.handled) = 2
    /\ last.handled[1].handler = 1
    /\ last.handled[2].handler = 2

\* The handlers under a name once a publish of that name is over.
HandlersAfter(name) == Subscribed(DoPublish(name).subs, name)

\* The publish of the same name that follows one made now.
NextPublish(name) == publish(DoPublish(name).subs, BusEvent(name), St)

\* A publish invokes none of the handlers subscribed while it runs: they are
\* appended behind the handlers it started with, one per invoked "sub".
SubscribedDuringNotInvoked(name) ==
    /\ \A k \in 1..Len(DoPublish(name).handled) :
           DoPublish(name).handled[k].handler <= Len(HandlersOf(name))
    /\ Len(HandlersAfter(name)) =
           Len(HandlersOf(name))
           + Cardinality({k \in 1..Len(DoPublish(name).handled) :
                              DoPublish(name).handled[k].kind = "sub"})
    /\ SubSeq(HandlersAfter(name), 1, Len(HandlersOf(name))) = HandlersOf(name)
    /\ \A k \in (Len(HandlersOf(name)) + 1)..Len(HandlersAfter(name)) :
           HandlersAfter(name)[k] = "late"

\* The handlers subscribed during the publish made now are invoked by the
\* next publish of the name.
InvokedByNextPublish(name) ==
    \A k \in (Len(HandlersOf(name)) + 1)..Len(HandlersAfter(name)) :
        \E j \in 1..Len(NextPublish(name).handled) :
            /\ NextPublish(name).handled[j].handler = k
            /\ NextPublish(name).handled[j].kind = "late"

\* Handlers are never removed or moved: a name's list only grows at its end.
SubscriptionsKept ==
    \A name \in BusNames :
        /\ Len(HandlersOf(name)) <= Len(HandlersOf(name)')
        /\ SubSeq(HandlersOf(name)', 1, Len(HandlersOf(name))) = HandlersOf(name)

\* C16 as stated: a handler subscribed during a publish of a name is not
\* invoked for that event and is invoked for every later publish of the name.
C16_LateSubscriberInvokedByEveryLaterPublish ==
    \A name \in BusNames :
        SubscribedDuringNotInvoked(name) /\ InvokedByNextPublish(name)

\* C16: a handler subscribed during a publish of a name is not invoked for
\* that event; it stays subscribed, behind the handlers subscribed before it,
\* and every later publish of the name in which no handler subscribed before
\* it raises invokes it.
C16_LateSubscriberInvokedUnlessEarlierRaises ==
    /\ [](\A name \in BusNames :
              /\ SubscribedDuringNotInvoked(name)
              /\ ~NextPublish(name).raised => InvokedByNextPublish(name)
              /\ ~DoPublish(name).raised =>
                     {DoPublish(name).handled[k].handler :
                          k \in 1..Len(DoPublish(name).handled)}
                         = 1..Len(HandlersOf(name)))
    /\ [][SubscriptionsKept]_vars

\* A second publish of LOW_STOCK invoked the handler that was subscribed
\* during the first one, and not the one subscribed during itself.
C16_Witness ==
    /\ last.op = "publish"
    /\ last.exc = "none"
    /\ last.published = <<BusEvent("LOW_STOCK")>>
    /\ HandlersOf("LOW_STOCK") = <<"sub", "late", "late">>
    /\ Len(last.handled) = 2
    /\ last.handled[2].kind = "late"
    /\ last.handled[2].handler = 2

\* The log rows a list_logs call is about: those of one component, or all.
Scope(component_id) ==
    IF component_id = Null THEN view.logs
    ELSE {l \in view.logs : l.component_id = component_id[1]}

LogScopes == {Null} \cup {Some(cid) : cid \in Ids}

\* `rows' lists rows of the scope, none twice, newest first: by descending
\* timestamp, then descending id, a later write's row before an earlier one's.
NewestFirst(rows, scope) ==
    /\ \A i \in 1..Len(rows) : rows[i] \in scope
    /\ \A i, j \in 1..Len(rows) :
           i < j => /\ \/ rows[i].timestamp > rows[j].timestamp
                       \/ /\ rows[i].timestamp = rows[j].timestamp
                          /\ rows[i].id > rows[j].id
                    /\ rows[i].id > rows[j].id

\* Every row of the scope that is left out is older than every listed row.
OlderLeftOut(rows, scope) ==
    \A i \in 1..Len(rows) :
        \A l \in scope \ {rows[k] : k \in 1..Len(rows)} : l.id < rows[i].id

\* C17: on a log that has rows, list_logs returns rows newest first
\* (descending timestamp, then descending id, a later operation's row before
\* an earlier one's), only the given component's rows or those of all
\* components when none is given, at most `limit' of them, and these are the
\* newest.
C17_ListLogsNewestFirstAtMostLimit ==
    view.logs # {} =>
        \A component_id \in LogScopes, limit \in Limits :
            LET rows == list_logs(view, component_id, limit)
            IN  /\ NewestFirst(rows, Scope(component_id))
                /\ OlderLeftOut(rows, Scope(component_id))
                /\ Len(rows) <= limit

\* The components that are low on stock, as the connection reads them.
LowComponents == {c \in view.comps : c.quantity <= c.min_quantity}

\* `n' comes before `m' in ascending order of the names.
NameBefore(n, m) == <<n, m>> \in {<<"a", "b">>}

\* C18: in every reachable state list_low_stock returns exactly the persisted
\* components with quantity <= min_quantity, each once, ordered by descending
\* deficit (min_quantity - quantity) and, for equal deficits, by ascending
\* name.
C18_LowStockListing ==
    LET rows == list_low_stock(view)
    IN  /\ {rows[i] : i \in 1..Len(rows)} = LowComponents
        /\ Len(rows) = Cardinality(LowComponents)
        /\ \A i, j \in 1..Len(rows) :
               i < j =>
                   \/ rows[i].min_quantity - rows[i].quantity
                          > rows[j].min_quantity - rows[j].quantity
                   \/ /\ rows[i].min_quantity - rows[i].quantity
                             = rows[j].min_quantity - rows[j].quantity
                      /\ NameBefore(rows[i].name, rows[j].name)

\* list_low_stock returned "b", short by one, before "a", at its threshold.
C18_Witness ==
    /\ last.op = "list_low_stock"
    /\ Len(last.ret.rows) = 2
    /\ last.ret.rows[1].name = "b"
    /\ last.ret.rows[1].min_quantity - last.ret.rows[1].quantity = 1
    /\ last.ret.rows[2].name = "a"
    /\ last.ret.rows[2].min_quantity = last.ret.rows[2].quantity
    /\ last.ret.rows = list_low_stock(view)

ReadOps == {"get_component", "list_components", "list_low_stock", "list_logs"}

\* C19: update_status never publishes an event and invokes no handler, also
\* when the component it updates has quantity <= min_quantity and a handler
\* is subscribed to LOW_STOCK; a call of get_component, list_components,
\* list_low_stock or list_logs publishes no event, invokes no handler and
\* leaves every component row and log row, pending or committed, as it was.
C19_StatusChangesAndReadsAreSilent ==
    /\ [](\A c \in WideUpdateCalls :
              DoUpdate(c).published = <<>> /\ DoUpdate(c).handled = <<>>)
    /\ [][last'.op = "update_status" =>
              last'.published = <<>> /\ last'.handled = <<>>]_vars
    /\ [][last'.op \in ReadOps =>
              /\ view' = view
              /\ durable' = durable
              /\ subscribers' = subscribers
              /\ last'.published = <<>>
              /\ last'.handled = <<>>]_vars

\* The status of a component that is low on stock was changed while a
\* handler is subscribed to LOW_STOCK: nothing was published.
C19_Witness ==
    /\ last.op = "update_status"
    /\ last.exc = "none"
    /\ last.published = <<>>
    /\ last.handled = <<>>
    /\ LowStockHandlers = <<"rec">>
    /\ \E comp \in durable.comps : \E row \in durable.logs :
           /\ comp.quantity <= comp.min_quantity
           /\ row.id = durable.lseq
           /\ row.action = "UPDATE_STATUS"
           /\ row.component_id = comp.id
           /\ row.status_after = Some(comp.status)
           /\ row.status_before # row.status_after

\* A handler raised during the publish step of the call.
HandlerRaised(r) == r.handled # <<>> /\ r.handled[Len(r.handled)].kind = "boom"

\* The exception reaches the caller, no value is returned, and the log row of
\* the call is committed with everything else the connection had written.
RaisedAfterCommit(r, action, component_id) ==
    /\ r.exc = "HandlerError"
    /\ r.ret = 0
    /\ r.txn = "committed"
    /\ r.st.view = r.st.durable
    /\ r.st.durable.logs = view.logs \cup {NewRow(r)}
    /\ NewRow(r).action = action
    /\ NewRow(r).component_id = component_id

\* C20: when a LOW_STOCK handler raises during the publish step of
\* add_component, adjust_quantity or set_min_quantity, the exception reaches
\* the caller of the operation (add_component returns no id) while the
\* component change and its log row are committed and stay so: nothing is
\* rolled back.  With a raising handler first in line every published event
\* ends this way.
C20_HandlerExceptionPropagates ==
    /\ \A c \in AddCalls :
           /\ HandlerRaised(DoAdd(c)) =>
                  /\ RaisedAfterCommit(DoAdd(c), "CREATE_COMPONENT", view.cseq + 1)
                  /\ get_component_by_name(DoAdd(c).st.durable, c.name) =
                         Some([id |-> view.cseq + 1, name |-> c.name,
                               description |-> c.description, status |-> c.status,
                               quantity |-> c.quantity,
                               min_quantity |-> c.min_quantity])
           /\ (DoAdd(c).published # <<>> /\ LowStockHandlers = <<"boom">>)
                  => HandlerRaised(DoAdd(c))
    /\ \A c \in AdjustCalls :
           /\ HandlerRaised(DoAdjust(c)) =>
                  /\ RaisedAfterCommit(DoAdjust(c), "ADJUST_QUANTITY", c.cid)
                  /\ get_component(DoAdjust(c).st.durable, c.cid) =
                         Some([Before(c.cid) EXCEPT !.quantity = @ + c.delta])
           /\ (DoAdjust(c).published # <<>> /\ LowStockHandlers = <<"boom">>)
                  => HandlerRaised(DoAdjust(c))
    /\ \A c \in SetMinCalls :
           /\ HandlerRaised(DoSetMin(c)) =>
                  /\ RaisedAfterCommit(DoSetMin(c), "SET_MIN_QUANTITY", c.cid)
                  /\ get_component(DoSetMin(c).st.durable, c.cid) =
                         Some([Before(c.cid) EXCEPT !.min_quantity = c.min_quantity])
           /\ (DoSetMin(c).published # <<>> /\ LowStockHandlers = <<"boom">>)
                  => HandlerRaised(DoSetMin(c))

\* add_component raised out of its handler and returned no id; the component
\* and its CREATE_COMPONENT row are committed.
C20_Witness ==
    /\ last.op = "add_component"
    /\ last.exc = "HandlerError"
    /\ last.ret = 0
    /\ Len(last.handled) = 1
    /\ last.handled[1].kind = "boom"
    /\ view = durable
    /\ \E comp \in durable.comps : \E row \in durable.logs :
           /\ comp.id = durable.cseq
           /\ last.published = <<LowStock(comp.id, comp.name, comp.quantity)>>
           /\ row.id = durable.lseq
           /\ row.action = "CREATE_COMPONENT"
           /\ row.component_id = comp.id

\* The position of the first handler of `hs' that raises on `event', or
\* Len(hs) when none does: the last handler a publish reaches.
LastReached(hs, event) ==
    IF \E k \in 1..Len(hs) : Raises(hs[k], event)
    THEN CHOOSE k \in 1..Len(hs) :
             Raises(hs[k], event) /\ \A j \in 1..(k - 1) : ~Raises(hs[j], event)
    ELSE Len(hs)

\* A publish that a handler ended: the handlers before the raising one were
\* invoked once each, in order, the raising one was invoked, those behind it
\* were not.  No subscription is removed; the list is the same unless a
\* handler that ran subscribed another.
EndedByHandler(name, event) ==
    LET hs == HandlersOf(name)
        d == publish(subscribers, event, St)
    IN  d.raised =>
            /\ Len(d.handled) = LastReached(hs, event)
            /\ Raises(hs[Len(d.handled)], event)
            /\ \A k \in 1..Len(d.handled) :
                   /\ d.handled[k].handler = k
                   /\ d.handled[k].kind = hs[k]
                   /\ d.handled[k].event = event
            /\ SubSeq(Subscribed(d.subs, name), 1, Len(hs)) = hs
            /\ (\A k \in 1..Len(d.handled) : hs[k] # "sub")
                   => d.subs = subscribers

\* The publish of `later' after a publish of `event' that a handler ended
\* invokes the handlers from the first one on, up to position `upto'.
LaterPublishInvokes(name, event, later, upto) ==
    LET d == publish(subscribers, event, St)
        again == publish(d.subs, later, St)
    IN  d.raised =>
            {again.handled[k].handler : k \in 1..Len(again.handled)} = 1..upto

\* C21 as stated: after a publish that a handler ended, a later publish of
\* the name invokes all handlers again.
C21_LaterPublishInvokesAll ==
    \A name \in BusNames : \A event, later \in BusEvents(name) :
        /\ EndedByHandler(name, event)
        /\ LaterPublishInvokes(name, event, later,
               Len(Subscribed(publish(subscribers, event, St).subs, name)))

\* C21: when a handler raises during publish, the handlers registered behind
\* it under the name are not invoked for that event, the handlers before it
\* have each been invoked once, and the exception leaves publish; no
\* subscription is removed, and a later publish of the name starts again at
\* the first handler and invokes every handler up to the first that raises
\* on the later event: all of them when none raises.
C21_RaiseEndsOnlyThisPublish ==
    \A name \in BusNames : \A event, later \in BusEvents(name) :
        /\ EndedByHandler(name, event)
        /\ LaterPublishInvokes(name, event, later,
               LastReached(Subscribed(publish(subscribers, event, St).subs, name),
                           later))

\* A publish of LOW_STOCK was ended by the second of three handlers; a later
\* publish, of an event that handler accepts, invokes all three.
C21_Witness ==
    /\ last.op = "publish"
    /\ last.exc = "HandlerError"
    /\ last.published = <<BusEvent("LOW_STOCK")>>
    /\ HandlersOf("LOW_STOCK") = <<"rec", "picky", "rec">>
    /\ Len(last.handled) = 2
    /\ last.handled[2].kind = "picky"
    /\ Len(publish(subscribers, [BusEvent("LOW_STOCK") EXCEPT !.payload.quantity = 1],
                   St).handled) = 3

\* A caller who passes a message of whitespace only.
Blank == [user |-> "tech", message |-> " ", fault |-> "none"]

\* The SET_MIN_QUANTITY description the service generates.
Generated(old, new) == "min_quantity " \o ToString(old) \o " -> " \o ToString(new)

\* The row holds the threshold before and after: in its before/after columns
\* or in its message.
RecordsThresholds(row, old, new) ==
    \/ row.qty_before = Some(old) /\ row.qty_after = Some(new)
    \/ row.message = Generated(old, new)

\* C22: for every set_min_quantity that returns (called with nothing pending
\* on the connection), with or without a message from the caller, the
\* SET_MIN_QUANTITY log row records the threshold before and the threshold
\* after the change; when the message is empty or whitespace only, the row's
\* message is the generated description naming the old and the new threshold.
C22_SetMinRowRecordsThresholds ==
    \A c \in SetMinCalls \cup [ctx : {Blank}, cid : Ids, min_quantity : Thresholds] :
        (view = durable /\ DoSetMin(c).exc = "none") =>
            /\ NewRow(DoSetMin(c)).action = "SET_MIN_QUANTITY"
            /\ NewRow(DoSetMin(c)).component_id = c.cid
            /\ Strip(c.ctx.message) = "" =>
                   NewRow(DoSetMin(c)).message =
                       Generated(Before(c.cid).min_quantity, c.min_quantity)
            /\ RecordsThresholds(NewRow(DoSetMin(c)), Before(c.cid).min_quantity,
                                 c.min_quantity)

\* The component rows after call `r' are those before it with the row of
\* `cid' replaced by `changed'; no row is added and no id is handed out.
OnlyRowChanged(r, cid, changed) ==
    /\ r.st.view.comps = (view.comps \ {Before(cid)}) \cup {changed}
    /\ Cardinality(r.st.view.comps) = Cardinality(view.comps)
    /\ r.st.view.cseq = view.cseq
    /\ view = durable => r.st.durable.comps = r.st.view.comps

\* C23: a mutation that commits changes one field of one component only:
\* update_status the status, adjust_quantity the quantity, set_min_quantity
\* the min_quantity of the component with the given id; the other fields of
\* that component and every field of every other component are as before,
\* and add_component adds one row and changes no existing one.
C23_OneFieldOfOneComponent ==
    /\ \A c \in UpdateCalls :
           Committed(DoUpdate(c)) =>
               OnlyRowChanged(DoUpdate(c), c.cid,
                              [id |-> c.cid, name |-> Before(c.cid).name,
                               description |-> Before(c.cid).description,
                               status |-> c.new_status,
                               quantity |-> Before(c.cid).quantity,
                               min_quantity |-> Before(c.cid).min_quantity])
    /\ \A c \in AdjustCalls :
           Committed(DoAdjust(c)) =>
               OnlyRowChanged(DoAdjust(c), c.cid,
                              [id |-> c.cid, name |-> Before(c.cid).name,
                               description |-> Before(c.cid).description,
                               status |-> Before(c.cid).status,
                               quantity |-> Before(c.cid).quantity + c.delta,
                               min_quantity |-> Before(c.cid).min_quantity])
    /\ \A c \in SetMinCalls :
           Committed(DoSetMin(c)) =>
               OnlyRowChanged(DoSetMin(c), c.cid,
                              [id |-> c.cid, name |-> Before(c.cid).name,
                               description |-> Before(c.cid).description,
                               status |-> Before(c.cid).status,
                               quantity |-> Before(c.cid).quantity,
                               min_quantity |-> c.min_quantity])
    /\ \A c \in AddCalls :
           Committed(DoAdd(c)) =>
               /\ view.comps \subseteq DoAdd(c).st.view.comps
               /\ Cardinality(DoAdd(c).st.view.comps) = Cardinality(view.comps) + 1
               /\ \A old \in view.comps : old.id # Created(DoAdd(c), c.name).id

\* With two components in the catalogue, the quantity of the first was
\* adjusted: the second is as it was created, and so are the other fields of
\* the first.
C23_Witness ==
    /\ last.op = "adjust_quantity"
    /\ last.exc = "none"
    /\ durable.lseq = 3
    /\ \E one, two \in durable.comps : \E made, other, row \in durable.logs :
           /\ one.id = 1 /\ two.id = 2
           /\ made.action = "CREATE_COMPONENT" /\ made.component_id = 1
           /\ other.action = "CREATE_COMPONENT" /\ other.component_id = 2
           /\ row.id = 3 /\ row.action = "ADJUST_QUANTITY" /\ row.component_id = 1
           /\ row.qty_before = made.qty_after
           /\ row.qty_after = Some(one.quantity)
           /\ row.qty_after # row.qty_before
           /\ Some(one.status) = made.status_after
           /\ Some(two.quantity) = other.qty_after
           /\ Some(two.status) = other.status_after

\* C24: set_min_quantity with a negative threshold raises the validation
\* ValueError before the component is looked up and before anything is
\* written, for a known id and for an unknown one alike (validation comes
\* before not-found): the component rows with their min_quantity, the log
\* and the sequences are as before, pending and committed, and no event is
\* published.
C24_NegativeThresholdRejectedFirst ==
    \A c \in SetMinCalls :
        c.min_quantity < 0 =>
            /\ DoSetMin(c).exc = "ValueError"
            /\ DoSetMin(c).why = "validation"
            /\ DoSetMin(c).st.view = view
            /\ DoSetMin(c).st.durable = durable
            /\ DoSetMin(c).published = <<>>
            /\ DoSetMin(c).handled = <<>>

\* A negative threshold was rejected by validation on an empty catalogue,
\* where every id is unknown, with a handler subscribed.
C24_Witness ==
    /\ last.op = "set_min_quantity"
    /\ last.exc = "ValueError"
    /\ last.why = "validation"
    /\ last.published = <<>>
    /\ view.comps = {}
    /\ view.cseq = 0
    /\ LowStockHandlers # <<>>

\* C25: in the text UI a validation, not-found or storage error arising in
\* a menu action (add component with any entered name, status and
\* quantities, update status, adjust quantity, set threshold) is caught and
\* printed and the menu loop goes on: such an error never ends run().
C25_MenuErrorsNeverEndRun ==
    last.op = "crashed" => last.why \notin {"validation", "not_found", "storage"}

\* The log rows of a component that carry a field: its CREATE_COMPONENT row
\* and the rows of the action that changes the field.
RowsOf(cid, action) ==
    {l \in view.logs : l.component_id = cid
                       /\ l.action \in {"CREATE_COMPONENT", action}}

Newest(rows) == CHOOSE l \in rows : \A m \in rows : m.id <= l.id

\* The row of `rows' written last before row `l'.
Previous(rows, l) == Newest({m \in rows : m.id < l.id})

\* C26: in every reachable state the log replays to the persisted state: the
\* quantity of each component is the qty_after of its newest
\* CREATE_COMPONENT/ADJUST_QUANTITY row and its status the status_after of
\* its newest CREATE_COMPONENT/UPDATE_STATUS row; the qty_before of each
\* ADJUST_QUANTITY row (the status_before of each UPDATE_STATUS row) is the
\* qty_after (status_after) of the previous row of the component that carries
\* the field.
C26_LogReplaysToState ==
    /\ \A c \in view.comps :
           /\ RowsOf(c.id, "ADJUST_QUANTITY") # {}
           /\ Newest(RowsOf(c.id, "ADJUST_QUANTITY")).qty_after = Some(c.quantity)
           /\ Newest(RowsOf(c.id, "UPDATE_STATUS")).status_after = Some(c.status)
    /\ \A l \in view.logs :
           /\ l.action = "ADJUST_QUANTITY" =>
                  /\ \E m \in RowsOf(l.component_id, "ADJUST_QUANTITY") : m.id < l.id
                  /\ l.qty_before =
                         Previous(RowsOf(l.component_id, "ADJUST_QUANTITY"), l).qty_after
           /\ l.action = "UPDATE_STATUS" =>
                  /\ \E m \in RowsOf(l.component_id, "UPDATE_STATUS") : m.id < l.id
                  /\ l.status_before =
                         Previous(RowsOf(l.component_id, "UPDATE_STATUS"), l).status_after

\* C27: in every reachable state every persisted component has exactly one
\* CREATE_COMPONENT log row, which is the oldest of the rows of that
\* component, and the component_id of every log row is the id of a persisted
\* component; the ids add_component hands out are positive, distinct from the
\* id of every component and never handed out again.
C27_EveryComponentHasItsCreateRow ==
    /\ \A c \in view.comps :
           /\ Cardinality({l \in view.logs : l.component_id = c.id
                                             /\ l.action = "CREATE_COMPONENT"}) = 1
           /\ \A l \in view.logs :
                  l.component_id = c.id /\ l.action # "CREATE_COMPONENT" =>
                      \E m \in view.logs : /\ m.component_id = c.id
                                           /\ m.action = "CREATE_COMPONENT"
                                           /\ m.id < l.id
    /\ \A l \in view.logs : \E c \in view.comps : c.id = l.component_id
    /\ \A c, d \in view.comps : c.id = d.id => c = d
    /\ \A c \in view.comps : c.id >= 1 /\ c.id <= view.cseq
    /\ \A c \in AddCalls :
           DoAdd(c).exc = "none" =>
               /\ DoAdd(c).ret >= 1
               /\ DoAdd(c).ret > view.cseq
               /\ \A old \in view.comps \cup durable.comps : old.id # DoAdd(c).ret

====
